---- MODULE Spec2Model ----
(***************************************************************************)
(* Model of app.py: the Flask face-recognition service backed by Redis.    *)
(*                                                                         *)
(* State: the durable Redis keyspace, the in-memory list KNOWN_FACES, and  *)
(* the local variables and position of every request handler thread (the   *)
(* Flask development server started by app.run serves each request on its  *)
(* own thread, and the handlers take no lock).                             *)
(*                                                                         *)
(* Strings are sequences of one-character strings, so that key.split(':')  *)
(* and the JSON text of an encoding are computed as the code computes      *)
(* them.  An encoding is a vector of two numbers in units of 0.05 (the     *)
(* backend's vectors have 128 floats; Python's float repr round-trips      *)
(* exactly, which integers reproduce).                                     *)
(***************************************************************************)
EXTENDS Integers, Sequences, FiniteSets, TLC

\* ---------------------------------------------------------------- bounds
MaxRequests == 2      \* requests accepted over the whole run
MaxRestarts == 1      \* process restarts over the whole run
NumThreads  == 2      \* request handler threads running at the same time

Threads == 1..NumThreads

\* ------------------------------------------------------------- constants
\* tolerance=0.55 of compare_faces, in units of 0.05
Tolerance == 11

\* Python's None for a JSON field that is absent
None == <<"<None>">>

\* ---------------------------------------------------------------- inputs
\* values of the 'roll' field of a request body
Rolls == { <<>>, <<"a">>, <<" ", "a", " ">>, <<"a", ":", "b">> }

\* encodings the recognition backend returns for the faces in the pictures:
\* Near1 and Near2 are within the tolerance of each other, Far of neither
Near1 == <<0, 0>>
Near2 == <<6, 8>>
Far   == <<20, 20>>
Encodings == { Near1, Near2, Far }

\* values of the 'image' field: absent, undecodable, or a picture showing a
\* sequence of faces (in the backend's detection order); the single-face
\* pictures show two faces far apart, the two-face picture one near the first;
\* ErrImage decodes but makes the recognition backend raise
NoImage  == [present |-> FALSE, valid |-> FALSE, raises |-> FALSE, faces |-> <<>>]
BadImage == [present |-> TRUE,  valid |-> FALSE, raises |-> FALSE, faces |-> <<>>]
ErrImage == [present |-> TRUE,  valid |-> TRUE,  raises |-> TRUE,  faces |-> <<>>]
Picture(fs) == [present |-> TRUE, valid |-> TRUE, raises |-> FALSE, faces |-> fs]
Images == { NoImage, BadImage, ErrImage, Picture(<<>>),
            Picture(<<Near1>>), Picture(<<Far>>), Picture(<<Near2, Far>>) }

\* ------------------------------------------------------- string helpers
RECURSIVE SplitAcc(_, _, _)
SplitAcc(s, sep, cur) ==
    IF s = <<>> THEN <<cur>>
    ELSE IF Head(s) = sep THEN <<cur>> \o SplitAcc(Tail(s), sep, <<>>)
    ELSE SplitAcc(Tail(s), sep, Append(cur, Head(s)))

\* str.split(sep) for a one-character separator
Split(s, sep) == SplitAcc(s, sep, <<>>)

RECURSIVE Join(_, _)
\* sep.join(parts)
Join(parts, sep) ==
    IF parts = <<>> THEN <<>>
    ELSE IF Len(parts) = 1 THEN parts[1]
    ELSE parts[1] \o sep \o Join(Tail(parts), sep)

Digits == <<"0", "1", "2", "3", "4", "5", "6", "7", "8", "9">>

RECURSIVE NumToStr(_)
\* the decimal text of a number, as json.dumps writes it
NumToStr(n) ==
    IF n < 10 THEN <<Digits[n + 1]>>
    ELSE Append(NumToStr(n \div 10), Digits[(n % 10) + 1])

IsDigit(c) == \E d \in 1..10 : Digits[d] = c
DigitVal(c) == (CHOOSE d \in 1..10 : Digits[d] = c) - 1

RECURSIVE StrToNumAcc(_, _)
StrToNumAcc(s, acc) ==
    IF s = <<>> THEN acc
    ELSE StrToNumAcc(Tail(s), acc * 10 + DigitVal(Head(s)))

\* the number a decimal text denotes, as json.loads reads it
StrToNum(s) == StrToNumAcc(s, 0)

RECURSIVE LStrip(_)
LStrip(s) == IF s # <<>> /\ Head(s) = " " THEN LStrip(Tail(s)) ELSE s

\* ------------------------------------------------------------------ JSON
\* json.dumps(new_encoding.tolist()): "[x1, x2, ...]"
json_dumps(enc) ==
    <<"[">> \o Join([i \in 1..Len(enc) |-> NumToStr(enc[i])], <<",", " ">>) \o <<"]">>

IsNumText(s) == s # <<>> /\ \A i \in 1..Len(s) : IsDigit(s[i])

\* whether json.loads accepts the text as a list of numbers
IsJSONList(txt) ==
    /\ Len(txt) >= 2
    /\ txt[1] = "["
    /\ txt[Len(txt)] = "]"
    /\ LET body  == SubSeq(txt, 2, Len(txt) - 1)
           parts == Split(body, ",")
       IN  \/ body = <<>>
           \/ \A i \in 1..Len(parts) : IsNumText(LStrip(parts[i]))

\* np.array(json.loads(encoding_json))
json_loads(txt) ==
    LET body  == SubSeq(txt, 2, Len(txt) - 1)
        parts == Split(body, ",")
    IN  IF body = <<>> THEN <<>>
        ELSE [i \in 1..Len(parts) |-> StrToNum(LStrip(parts[i]))]

\* ----------------------------------------------------------- Redis keys
KeyPrefix == <<"f", "a", "c", "e", "_", "e", "n", "c", "o", "d", "i", "n", "g", ":">>

\* f'face_encoding:{roll}'
FaceKey(roll) == KeyPrefix \o roll

\* --------------------------------------------------------------- state
VARIABLES
    redis,        \* the durable store: a function from keys to JSON texts
    KNOWN_FACES,  \* the in-memory list of [roll, encoding] records
    phase,        \* "starting" (before load_faces_from_redis), "serving", or
                  \* "crashed" (the process ended on an uncaught exception)
    req,          \* per handler thread: position and local variables
    nreq,         \* requests accepted so far
    restarts      \* process restarts so far

vars == <<redis, KNOWN_FACES, phase, req, nreq, restarts>>

NoResp == [status |-> 0, success |-> FALSE, roll |-> None, message |-> "none"]

\* a thread that is serving no request
Idle == [pc |-> "idle", op |-> "none", roll |-> None, nfaces |-> -1, enc |-> <<>>,
         i |-> 0, known_encodings |-> <<>>, known_rolls |-> <<>>, resp |-> NoResp]

\* jsonify(...) with the HTTP status of the return statement
Response(status, success, roll, message) ==
    [status |-> status, success |-> success, roll |-> roll, message |-> message]

\* the thread's handler returns: locals are dropped; the response stays, with
\* the roll, the number of faces detected (-1: detection did not run) and the
\* encoding it is about, until the thread takes its next request
Return(t, op, r, n, e, response) ==
    req' = [req EXCEPT ![t] = [Idle EXCEPT !.pc = "done", !.op = op, !.roll = r,
                                           !.nfaces = n, !.enc = e, !.resp = response]]

\* what Redis may hold when the process is first started: nothing, or the
\* key an earlier run of the service wrote when roll 'a' was enrolled
PriorStores ==
    { [k \in {} |-> <<>>],
      [k \in {FaceKey(<<"a">>)} |-> json_dumps(Near1)] }

Init ==
    /\ redis \in PriorStores
    /\ KNOWN_FACES = <<>>
    /\ phase = "starting"
    /\ req = [t \in Threads |-> Idle]
    /\ nreq = 0
    /\ restarts = 0

\* ------------------------------------------------- load_faces_from_redis
\* the orders in which redis_client.keys('face_encoding:*') may list the keys
KeyOrders(keys) ==
    { o \in [1..Cardinality(keys) -> keys] :
        \A i, j \in 1..Cardinality(keys) : i # j => o[i] # o[j] }

RECURSIVE LoadKeys(_, _, _)
\* the for loop of load_faces_from_redis over face_keys, appending to acc
LoadKeys(store, face_keys, acc) ==
    IF face_keys = <<>> THEN acc
    ELSE LET key   == Head(face_keys)
             parts == Split(key, ":")
         IN  IF Len(parts) < 2 \/ ~IsJSONList(store[key])
             THEN LoadKeys(store, Tail(face_keys), acc)
             ELSE LoadKeys(store, Tail(face_keys),
                           Append(acc, [roll |-> parts[2],
                                        encoding |-> json_loads(store[key])]))

\* the lists load_faces_from_redis may build from a durable store
LoadResults(store) ==
    { LoadKeys(store, o, <<>>) : o \in KeyOrders(DOMAIN store) }

\* __main__: load_faces_from_redis() and then app.run
Startup ==
    /\ phase = "starting"
    /\ KNOWN_FACES' \in LoadResults(redis)
    /\ phase' = "serving"
    /\ UNCHANGED <<redis, req, nreq, restarts>>

\* __main__ with Redis unreachable: redis_client.keys (line 39) raises outside
\* the try of lines 42-52, nothing catches it and the process ends
StartupFail ==
    /\ phase = "starting"
    /\ phase' = "crashed"
    /\ UNCHANGED <<redis, KNOWN_FACES, req, nreq, restarts>>

\* the process stops and is started again: the module is initialised anew
\* (KNOWN_FACES = []), in-flight requests are lost, Redis keeps its keys
Restart ==
    /\ phase \in {"serving", "crashed"}
    /\ restarts < MaxRestarts
    /\ phase' = "starting"
    /\ KNOWN_FACES' = <<>>
    /\ req' = [t \in Threads |-> Idle]
    /\ restarts' = restarts + 1
    /\ UNCHANGED <<redis, nreq>>

\* ------------------------------------------------- external collaborators
\* decode_image: None for an undecodable payload
decode_image(image_b64) == IF image_b64.valid THEN image_b64 ELSE NoImage

\* face_recognition.face_encodings(rgb_img, face_locations(rgb_img))
face_encodings(img) == img.faces

\* squared Euclidean distance of two encodings
Dist2(e1, e2) ==
    LET d(i) == (e1[i] - e2[i]) * (e1[i] - e2[i])
        RECURSIVE Sum(_)
        Sum(n) == IF n = 0 THEN 0 ELSE d(n) + Sum(n - 1)
    IN  Sum(Len(e1))

\* face_recognition.compare_faces(known, face, tolerance): one flag per
\* known encoding, distance <= tolerance
compare_faces(known, face, tolerance) ==
    [i \in 1..Len(known) |-> Dist2(known[i], face) <= tolerance * tolerance]

\* a thread can take a new request; the server hands a request to any free
\* thread, and since threads are interchangeable the lowest one stands for all
Free(t) ==
    /\ phase = "serving"
    /\ nreq < MaxRequests
    /\ req[t].pc \in {"idle", "done"}
    /\ \A u \in 1..(t - 1) : req[u].pc \notin {"idle", "done"}

\* what Flask answers when a handler raises: status 500 with an HTML page;
\* the body is no JSON object, so it has no success and no roll field (kept
\* here as FALSE and None)
HtmlErrorPage ==
    [status |-> 500, success |-> FALSE, roll |-> None, message |-> "<!doctype html>"]

\* ---------------------------------------------------------------- add_face
\* lines 79-80 on a JSON body that is no object (null, a list, a number):
\* data.get raises AttributeError before the try of line 86
AddFaceBadBody(t) ==
    /\ Free(t)
    /\ nreq' = nreq + 1
    /\ Return(t, "add", None, -1, <<>>, HtmlErrorPage)
    /\ UNCHANGED <<redis, KNOWN_FACES, phase, restarts>>

\* mutant of AddFaceBegin: a picture with several faces is enrolled with its
\* first face instead of being rejected
AddFaceBegin_FirstOfMany(t, roll, image_b64) ==
    /\ Free(t)
    /\ nreq' = nreq + 1
    /\ IF roll = None \/ roll = <<>> \/ ~image_b64.present
       THEN Return(t, "add", None, -1, <<>>,
                   Response(400, FALSE, None, "Missing roll or image data"))
       ELSE LET img == decode_image(image_b64)
                encs == face_encodings(img)
            IN  IF ~img.present
                THEN Return(t, "add", None, -1, <<>>,
                            Response(400, FALSE, None, "Invalid image data"))
                ELSE IF img.raises
                THEN Return(t, "add", None, -1, <<>>,
                            Response(500, FALSE, None, "Server error during encoding"))
                ELSE IF encs = <<>>
                THEN Return(t, "add", None, Len(encs), <<>>,
                            Response(200, FALSE, None, "No face found in the image."))
                ELSE req' = [req EXCEPT ![t] = [Idle EXCEPT !.pc = "set", !.op = "add",
                                                            !.roll = roll,
                                                            !.nfaces = Len(encs),
                                                            !.enc = encs[1]]]
    /\ UNCHANGED <<redis, KNOWN_FACES, phase, restarts>>

\* lines 79-100: read the body, validate, decode, detect (an exception of the
\* backend is answered by lines 122-124)
AddFaceBegin(t, roll, image_b64) ==
    /\ Free(t)
    /\ nreq' = nreq + 1
    /\ IF roll = None \/ roll = <<>> \/ ~image_b64.present
       THEN Return(t, "add", None, -1, <<>>,
                   Response(400, FALSE, None, "Missing roll or image data"))
       ELSE LET img == decode_image(image_b64)
                encs == face_encodings(img)
            IN  IF ~img.present
                THEN Return(t, "add", None, -1, <<>>,
                            Response(400, FALSE, None, "Invalid image data"))
                ELSE IF img.raises
                THEN Return(t, "add", None, -1, <<>>,
                            Response(500, FALSE, None, "Server error during encoding"))
                ELSE IF encs = <<>>
                THEN Return(t, "add", None, Len(encs), <<>>,
                            Response(200, FALSE, None, "No face found in the image."))
                ELSE IF Len(encs) > 1
                THEN Return(t, "add", None, Len(encs), <<>>,
                            Response(200, FALSE, None, "More than one face found."))
                ELSE req' = [req EXCEPT ![t] = [Idle EXCEPT !.pc = "set", !.op = "add",
                                                            !.roll = roll,
                                                            !.nfaces = Len(encs),
                                                            !.enc = encs[1]]]
    /\ UNCHANGED <<redis, KNOWN_FACES, phase, restarts>>

\* lines 104-106: redis_client.set(f'face_encoding:{roll}', encoding_json)
AddRedisSet(t) ==
    /\ req[t].pc = "set"
    /\ LET key == FaceKey(req[t].roll)
           encoding_json == json_dumps(req[t].enc)
       IN  redis' = [k \in DOMAIN redis \cup {key} |->
                        IF k = key THEN encoding_json ELSE redis[k]]
    /\ req' = [req EXCEPT ![t].pc = "scan", ![t].i = 1]
    /\ UNCHANGED <<KNOWN_FACES, phase, nreq, restarts>>

\* mutant of AddRedisSetFail: the cache is updated before the durable write,
\* so a failed write leaves the record in the cache
AddRedisSetFail_CacheFirst(t) ==
    /\ req[t].pc = "set"
    /\ KNOWN_FACES' = Append(KNOWN_FACES, [roll |-> req[t].roll, encoding |-> req[t].enc])
    /\ Return(t, "add", req[t].roll, req[t].nfaces, req[t].enc,
              Response(500, FALSE, None, "Server error during encoding"))
    /\ UNCHANGED <<redis, phase, nreq, restarts>>

\* line 106 raises (Redis unreachable): lines 122-124 answer 500
AddRedisSetFail(t) ==
    /\ req[t].pc = "set"
    /\ Return(t, "add", req[t].roll, req[t].nfaces, req[t].enc,
              Response(500, FALSE, None, "Server error during encoding"))
    /\ UNCHANGED <<redis, KNOWN_FACES, phase, nreq, restarts>>

\* mutant of AddScan: the encoding is written into the record component by
\* component and a reader can see it after the first component
AddScan_TornWrite(t) ==
    /\ req[t].pc = "scan"
    /\ IF req[t].i > Len(KNOWN_FACES)
       THEN /\ req' = [req EXCEPT ![t].pc = "append"]
            /\ UNCHANGED KNOWN_FACES
       ELSE IF KNOWN_FACES[req[t].i].roll = req[t].roll
       THEN /\ KNOWN_FACES' = [KNOWN_FACES EXCEPT
                                  ![req[t].i].encoding = [@ EXCEPT ![1] = req[t].enc[1]]]
            /\ Return(t, "add", req[t].roll, req[t].nfaces, req[t].enc,
                      Response(200, TRUE, None, "Face encoding saved"))
       ELSE /\ req' = [req EXCEPT ![t].i = req[t].i + 1]
            /\ UNCHANGED KNOWN_FACES
    /\ UNCHANGED <<redis, phase, nreq, restarts>>

\* lines 111-115: one iteration of the for loop over KNOWN_FACES, or its end
AddScan(t) ==
    /\ req[t].pc = "scan"
    /\ IF req[t].i > Len(KNOWN_FACES)
       THEN /\ req' = [req EXCEPT ![t].pc = "append"]
            /\ UNCHANGED KNOWN_FACES
       ELSE IF KNOWN_FACES[req[t].i].roll = req[t].roll
       THEN /\ KNOWN_FACES' = [KNOWN_FACES EXCEPT ![req[t].i].encoding = req[t].enc]
            /\ Return(t, "add", req[t].roll, req[t].nfaces, req[t].enc,
                      Response(200, TRUE, None, "Face encoding saved"))
       ELSE /\ req' = [req EXCEPT ![t].i = req[t].i + 1]
            /\ UNCHANGED KNOWN_FACES
    /\ UNCHANGED <<redis, phase, nreq, restarts>>

\* mutant of AddAppend: the record is added to the list as it was when the
\* scan ended, dropping what other requests appended since
AddAppend_StaleList(t) ==
    /\ req[t].pc = "append"
    /\ KNOWN_FACES' = Append(SubSeq(KNOWN_FACES, 1, req[t].i - 1),
                             [roll |-> req[t].roll, encoding |-> req[t].enc])
    /\ Return(t, "add", req[t].roll, req[t].nfaces, req[t].enc,
              Response(200, TRUE, None, "Face encoding saved"))
    /\ UNCHANGED <<redis, phase, nreq, restarts>>

\* lines 116-120: not found_in_cache, append the record
AddAppend(t) ==
    /\ req[t].pc = "append"
    /\ KNOWN_FACES' = Append(KNOWN_FACES, [roll |-> req[t].roll, encoding |-> req[t].enc])
    /\ Return(t, "add", req[t].roll, req[t].nfaces, req[t].enc,
              Response(200, TRUE, None, "Face encoding saved"))
    /\ UNCHANGED <<redis, phase, nreq, restarts>>

\* ---------------------------------------------------------- recognize_face
\* mutant of FirstTrue: the last passing record wins
FirstTrue_LastWins(matches) ==
    IF \E i \in 1..Len(matches) : matches[i]
    THEN CHOOSE i \in 1..Len(matches) :
            matches[i] /\ \A j \in (i + 1)..Len(matches) : ~matches[j]
    ELSE 0

\* matches.index(True), 0 when True is not in matches
FirstTrue(matches) ==
    IF \E i \in 1..Len(matches) : matches[i]
    THEN CHOOSE i \in 1..Len(matches) :
            matches[i] /\ \A j \in 1..(i - 1) : ~matches[j]
    ELSE 0

\* line 150 run without interruption: [item['encoding'] for item in KNOWN_FACES]
KnownEncodings(faces) == [i \in 1..Len(faces) |-> faces[i].encoding]

\* line 151 run without interruption: [item['roll'] for item in KNOWN_FACES]
KnownRolls(faces) == [i \in 1..Len(faces) |-> faces[i].roll]

\* lines 154-159: the roll recognize_face resolves a face to, None for no match
recognized_roll(known_encodings, known_rolls, face) ==
    LET matches == compare_faces(known_encodings, face, Tolerance)
        first_match_index == FirstTrue(matches)
    IN  IF first_match_index = 0 THEN None ELSE known_rolls[first_match_index]

\* lines 129-130 on a JSON body that is no object: data.get raises
\* AttributeError before the try of line 137
RecognizeBadBody(t) ==
    /\ Free(t)
    /\ nreq' = nreq + 1
    /\ Return(t, "recognize", None, -1, <<>>, HtmlErrorPage)
    /\ UNCHANGED <<redis, KNOWN_FACES, phase, restarts>>

\* mutant of RecognizeBegin: the cache is checked for emptiness only after
\* the image was decoded and the faces detected
RecognizeBegin_LateEmptyCheck(t, image_b64) ==
    /\ Free(t)
    /\ nreq' = nreq + 1
    /\ IF ~image_b64.present
       THEN Return(t, "recognize", None, -1, <<>>,
                   Response(400, FALSE, None, "Missing image data"))
       ELSE LET img == decode_image(image_b64)
                encs == face_encodings(img)
            IN  IF ~img.present
                THEN Return(t, "recognize", None, -1, <<>>,
                            Response(400, FALSE, None, "Invalid image data"))
                ELSE IF img.raises
                THEN Return(t, "recognize", None, -1, <<>>,
                            Response(500, FALSE, None, "Server error"))
                ELSE IF encs = <<>>
                THEN Return(t, "recognize", None, Len(encs), <<>>,
                            Response(200, FALSE, None, "No face detected."))
                ELSE IF KNOWN_FACES = <<>>
                THEN Return(t, "recognize", None, Len(encs), <<>>,
                            Response(200, FALSE, None, "No known faces in database."))
                ELSE req' = [req EXCEPT ![t] = [Idle EXCEPT !.pc = "encodings",
                                                            !.op = "recognize",
                                                            !.nfaces = Len(encs),
                                                            !.enc = encs[1], !.i = 1]]
    /\ UNCHANGED <<redis, KNOWN_FACES, phase, restarts>>

\* lines 129-147: read the body, validate, check the cache, decode, detect
\* (an exception of the backend is answered by lines 166-168)
RecognizeBegin(t, image_b64) ==
    /\ Free(t)
    /\ nreq' = nreq + 1
    /\ IF ~image_b64.present
       THEN Return(t, "recognize", None, -1, <<>>,
                   Response(400, FALSE, None, "Missing image data"))
       ELSE IF KNOWN_FACES = <<>>
       THEN Return(t, "recognize", None, -1, <<>>,
                   Response(200, FALSE, None, "No known faces in database."))
       ELSE LET img == decode_image(image_b64)
                encs == face_encodings(img)
            IN  IF ~img.present
                THEN Return(t, "recognize", None, -1, <<>>,
                            Response(400, FALSE, None, "Invalid image data"))
                ELSE IF img.raises
                THEN Return(t, "recognize", None, -1, <<>>,
                            Response(500, FALSE, None, "Server error"))
                ELSE IF encs = <<>>
                THEN Return(t, "recognize", None, Len(encs), <<>>,
                            Response(200, FALSE, None, "No face detected."))
                ELSE req' = [req EXCEPT ![t] = [Idle EXCEPT !.pc = "encodings",
                                                            !.op = "recognize",
                                                            !.nfaces = Len(encs),
                                                            !.enc = encs[1], !.i = 1]]
    /\ UNCHANGED <<redis, KNOWN_FACES, phase, restarts>>

\* line 150: one iteration of [item['encoding'] for item in KNOWN_FACES], or its end
RecognizeReadEncodings(t) ==
    /\ req[t].pc = "encodings"
    /\ IF req[t].i > Len(KNOWN_FACES)
       THEN req' = [req EXCEPT ![t].pc = "rolls", ![t].i = 1]
       ELSE req' = [req EXCEPT ![t].known_encodings =
                                   Append(@, KNOWN_FACES[req[t].i].encoding),
                               ![t].i = @ + 1]
    /\ UNCHANGED <<redis, KNOWN_FACES, phase, nreq, restarts>>

\* line 151: one iteration of [item['roll'] for item in KNOWN_FACES], or its end
RecognizeReadRolls(t) ==
    /\ req[t].pc = "rolls"
    /\ IF req[t].i > Len(KNOWN_FACES)
       THEN req' = [req EXCEPT ![t].pc = "compare"]
       ELSE req' = [req EXCEPT ![t].known_rolls = Append(@, KNOWN_FACES[req[t].i].roll),
                               ![t].i = @ + 1]
    /\ UNCHANGED <<redis, KNOWN_FACES, phase, nreq, restarts>>

\* mutant of RecognizeCompare: a match refreshes the matched record with the
\* encoding of the submitted face
RecognizeCompare_Learns(t) ==
    /\ req[t].pc = "compare"
    /\ LET roll == recognized_roll(req[t].known_encodings, req[t].known_rolls, req[t].enc)
           k == FirstTrue(compare_faces(req[t].known_encodings, req[t].enc, Tolerance))
       IN  IF roll # None /\ roll # <<>>
           THEN /\ Return(t, "recognize", None, req[t].nfaces, req[t].enc,
                          Response(200, TRUE, roll, "Match found!"))
                /\ KNOWN_FACES' = [KNOWN_FACES EXCEPT ![k].encoding = req[t].enc]
           ELSE /\ Return(t, "recognize", None, req[t].nfaces, req[t].enc,
                          Response(200, FALSE, None, "No match found in database."))
                /\ UNCHANGED KNOWN_FACES
    /\ UNCHANGED <<redis, phase, nreq, restarts>>

\* lines 154-164: compare, take the first match, answer
RecognizeCompare(t) ==
    /\ req[t].pc = "compare"
    /\ LET roll == recognized_roll(req[t].known_encodings, req[t].known_rolls, req[t].enc)
       IN  IF roll # None /\ roll # <<>>
           THEN Return(t, "recognize", None, req[t].nfaces, req[t].enc,
                       Response(200, TRUE, roll, "Match found!"))
           ELSE Return(t, "recognize", None, req[t].nfaces, req[t].enc,
                       Response(200, FALSE, None, "No match found in database."))
    /\ UNCHANGED <<redis, KNOWN_FACES, phase, nreq, restarts>>

\* ------------------------------------------------------------ specification
Next ==
    \/ Startup
    \/ StartupFail
    \/ Restart
    \/ \E t \in Threads : AddFaceBadBody(t)
    \/ \E t \in Threads : RecognizeBadBody(t)
    \/ \E t \in Threads, roll \in Rolls, image_b64 \in Images : AddFaceBegin(t, roll, image_b64)
    \/ \E t \in Threads : AddRedisSet(t)
    \/ \E t \in Threads : AddRedisSetFail(t)
    \/ \E t \in Threads : AddScan(t)
    \/ \E t \in Threads : AddAppend(t)
    \/ \E t \in Threads, image_b64 \in Images : RecognizeBegin(t, image_b64)
    \/ \E t \in Threads : RecognizeReadEncodings(t)
    \/ \E t \in Threads : RecognizeReadRolls(t)
    \/ \E t \in Threads : RecognizeCompare(t)

Spec == Init /\ [][Next]_vars

\* a thread is inside a handler
Busy(t) == req[t].pc \notin {"idle", "done"}

\* an add_face request has passed validation and has not returned
AddInProgress(t) == req[t].pc \in {"set", "scan", "append"}

\* requests arrive one at a time: a request is taken only after the previous
\* one has returned
Sequential == Cardinality({t \in Threads : Busy(t)}) <= 1

NextSeq ==
    \/ Startup /\ Sequential'
    \/ StartupFail /\ Sequential'
    \/ Restart /\ Sequential'
    \/ \E t \in Threads : AddFaceBadBody(t) /\ Sequential'
    \/ \E t \in Threads : RecognizeBadBody(t) /\ Sequential'
    \/ \E t \in Threads, roll \in Rolls, image_b64 \in Images :
          AddFaceBegin(t, roll, image_b64) /\ Sequential'
    \/ \E t \in Threads : AddRedisSet(t) /\ Sequential'
    \/ \E t \in Threads : AddRedisSetFail(t) /\ Sequential'
    \/ \E t \in Threads : AddScan(t) /\ Sequential'
    \/ \E t \in Threads : AddAppend(t) /\ Sequential'
    \/ \E t \in Threads, image_b64 \in Images :
          RecognizeBegin(t, image_b64) /\ Sequential'
    \/ \E t \in Threads : RecognizeReadEncodings(t) /\ Sequential'
    \/ \E t \in Threads : RecognizeReadRolls(t) /\ Sequential'
    \/ \E t \in Threads : RecognizeCompare(t) /\ Sequential'

SpecSeq == Init /\ [][NextSeq]_vars

\* --------------------------------------------------------------- claims
\* the records of a list as a set of (identifier, encoding) pairs
Mapping(faces) == { <<faces[i].roll, faces[i].encoding>> : i \in 1..Len(faces) }

\* the positions of the records of a list that carry an identifier
RecordsOf(faces, roll) == { i \in 1..Len(faces) : faces[i].roll = roll }

\* no add_face request is between validation and its return
Quiescent == phase = "serving" /\ \A t \in Threads : ~AddInProgress(t)

\* C1: in every reachable state KNOWN_FACES holds at most one record per
\* identifier, whatever the interleaving of loads, enrollments and matches.
C1_AtMostOneRecordPerIdentifier ==
    \A i, j \in 1..Len(KNOWN_FACES) :
        KNOWN_FACES[i].roll = KNOWN_FACES[j].roll => i = j

\* the identifier part of every durable key is free of ':'
NoColonKeys == \A k \in DOMAIN redis : Len(Split(k, ":")) = 2

\* C2: whenever no add_face request is in progress, the in-memory mapping
\* equals the mapping a fresh load from the durable store would reconstruct;
\* in particular after two concurrent enrollments of one identifier.  Stated
\* for stores whose identifiers contain no ':' (C3 is about those that do).
C2_CacheEqualsReload ==
    (Quiescent /\ NoColonKeys) =>
        \A faces \in LoadResults(redis) : Mapping(faces) = Mapping(KNOWN_FACES)

\* C3: round trip: with requests served one at a time, the durable state
\* written by the enrollments, loaded afresh, gives the same identifiers with
\* equal encodings as the in-memory mapping, for every accepted identifier.
C3_RoundTrip ==
    Quiescent =>
        \A faces \in LoadResults(redis) : Mapping(faces) = Mapping(KNOWN_FACES)

\* the step by which thread t's add_face stores its encoding in the cache and
\* returns success
EnrollStep(t) == AddInProgress(t) /\ req'[t].pc = "done" /\ req'[t].resp.success

\* the roll a match of face against the whole list resolves to
Match(faces, face) == recognized_roll(KnownEncodings(faces), KnownRolls(faces), face)

\* compare_faces on one pair
WithinTolerance(e1, e2) == compare_faces(<<e1>>, e2, Tolerance)[1]

\* C4: re-enrolling, one request at a time, an identifier that is already
\* enrolled leaves exactly one record for it, carrying the new encoding, in
\* the cache, and the new encoding under its key in the durable store.
C4_ReenrollReplaces ==
    [][\A t \in Threads :
         (EnrollStep(t) /\ RecordsOf(KNOWN_FACES, req[t].roll) # {}) =>
            /\ Cardinality(RecordsOf(KNOWN_FACES', req[t].roll)) = 1
            /\ \A i \in RecordsOf(KNOWN_FACES', req[t].roll) :
                  KNOWN_FACES'[i].encoding = req[t].enc
            /\ FaceKey(req[t].roll) \in DOMAIN redis'
            /\ json_loads(redis'[FaceKey(req[t].roll)]) = req[t].enc]_vars

\* C5 as stated: right after identifier A is enrolled with an image, matching
\* the same image resolves to A, whatever the store held before.
C5_EnrollThenMatchReturnsSame ==
    [][\A t \in Threads :
         EnrollStep(t) => Match(KNOWN_FACES', req[t].enc) = req[t].roll]_vars

\* no record ahead of the first record of roll is within tolerance of face
NoEarlierPass(faces, roll, face) ==
    \A i \in RecordsOf(faces, roll) :
        (\A k \in RecordsOf(faces, roll) : i <= k) =>
            \A j \in 1..(i - 1) : ~WithinTolerance(faces[j].encoding, face)

\* C5 amended: right after identifier A is enrolled with an image, matching
\* the same image resolves to A provided no record ahead of A's first record
\* in the list is within tolerance of that image.
C5_EnrollThenMatchFirstWins ==
    [][\A t \in Threads :
         (EnrollStep(t) /\ NoEarlierPass(KNOWN_FACES', req[t].roll, req[t].enc))
            => Match(KNOWN_FACES', req[t].enc) = req[t].roll]_vars

\* C5 witness: a recognize_face request has returned A for the image A's
\* record was enrolled with, A's record standing behind a record of another
\* identifier that is out of tolerance
C5_Witness ==
    \E t \in Threads, i \in 2..Len(KNOWN_FACES) :
        /\ req[t].pc = "done" /\ req[t].op = "recognize" /\ req[t].resp.success
        /\ req[t].resp.roll = KNOWN_FACES[i].roll
        /\ KNOWN_FACES[i].encoding = req[t].enc
        /\ \A j \in 1..(i - 1) :
              /\ KNOWN_FACES[j].roll # KNOWN_FACES[i].roll
              /\ ~WithinTolerance(KNOWN_FACES[j].encoding, req[t].enc)

\* thread t's last request was an add_face that returned success
Enrolled(t) == req[t].pc = "done" /\ req[t].op = "add" /\ req[t].resp.success

\* C6: when two add_face requests for distinct identifiers have run
\* concurrently and both returned success, both identifiers have a record in
\* the durable store and in the in-memory store.
C6_DistinctEnrollmentsBothKept ==
    \A t, u \in Threads :
        (t # u /\ Enrolled(t) /\ Enrolled(u) /\ req[t].roll # req[u].roll) =>
            /\ FaceKey(req[t].roll) \in DOMAIN redis
            /\ FaceKey(req[u].roll) \in DOMAIN redis
            /\ RecordsOf(KNOWN_FACES, req[t].roll) # {}
            /\ RecordsOf(KNOWN_FACES, req[u].roll) # {}

\* C6 witness: two overlapping enrollments of distinct identifiers have both
\* returned success, each having appended its record
C6_Witness ==
    \E t, u \in Threads :
        /\ t # u /\ Enrolled(t) /\ Enrolled(u) /\ req[t].roll # req[u].roll
        /\ \E i, j \in 1..Len(KNOWN_FACES) :
              /\ i # j
              /\ KNOWN_FACES[i] = [roll |-> req[t].roll, encoding |-> req[t].enc]
              /\ KNOWN_FACES[j] = [roll |-> req[u].roll, encoding |-> req[u].enc]

\* thread t is inside recognize_face, past detection
Matching(t) == req[t].op = "recognize" /\ Busy(t)

\* C7: a recognize_face request running next to add_face requests reads only
\* whole encodings, never a mixture of an old and a new one, and its two
\* lists stay aligned with the records they were read from, so the roll it
\* resolves to is the roll of the record whose encoding passed.
C7_NoTornRead ==
    \A t \in Threads : Matching(t) =>
        LET encs  == req[t].known_encodings
            rolls == req[t].known_rolls
        IN  /\ \A i \in 1..Len(encs) : encs[i] \in Encodings
            /\ Len(encs) <= Len(KNOWN_FACES)
            /\ Len(rolls) <= Len(KNOWN_FACES)
            /\ \A i \in 1..Len(rolls) : rolls[i] = KNOWN_FACES[i].roll
            /\ req[t].pc = "compare" =>
                  /\ Len(encs) <= Len(rolls)
                  /\ LET k == FirstTrue(compare_faces(encs, req[t].enc, Tolerance))
                     IN  k # 0 =>
                            /\ recognized_roll(encs, rolls, req[t].enc) = KNOWN_FACES[k].roll
                            /\ WithinTolerance(encs[k], req[t].enc)

\* C7 witness: a match is about to compare against the old encoding of an
\* identifier that a concurrent add_face has meanwhile re-enrolled
C7_Witness ==
    \E t, u \in Threads, i \in 1..Len(KNOWN_FACES) :
        /\ req[t].op = "recognize" /\ req[t].pc = "compare"
        /\ i <= Len(req[t].known_encodings)
        /\ Enrolled(u) /\ req[u].roll = KNOWN_FACES[i].roll
        /\ KNOWN_FACES[i].encoding = req[u].enc
        /\ req[t].known_encodings[i] # KNOWN_FACES[i].encoding

\* an add_face request has written Redis and not yet updated the cache
BetweenWriteAndUpdate(u) == req[u].pc \in {"scan", "append"}

\* thread t's recognize_face takes a step that reads KNOWN_FACES
ReadStep(t) ==
    /\ req[t].op = "recognize"
    /\ req[t].pc \in {"encodings", "rolls"}
    /\ req'[t] # req[t]

\* C8: no recognize_face request reads the in-memory store while an
\* enrollment has completed its durable write but not its in-memory update.
C8_ReadsSerializedWithUpserts ==
    [][\A t \in Threads :
         ReadStep(t) => ~\E u \in Threads : BetweenWriteAndUpdate(u)]_vars

\* C9: an add_face request whose image shows no face, or more than one, ends
\* at once with a failure result, and the step leaves the durable store and
\* the in-memory store as they were.
C9_WrongFaceCountRejected ==
    [][\A t \in Threads :
         (req'[t] # req[t] /\ req'[t].op = "add" /\ req'[t].nfaces \notin {-1, 1}) =>
            /\ req'[t].pc = "done"
            /\ ~req'[t].resp.success
            /\ UNCHANGED <<redis, KNOWN_FACES>>]_vars

\* C9 witness: an add_face request with a two-face picture was rejected while
\* the store holds a record
C9_Witness ==
    \E t \in Threads :
        /\ req[t].pc = "done" /\ req[t].op = "add" /\ req[t].nfaces = 2
        /\ ~req[t].resp.success
        /\ KNOWN_FACES # <<>>

RECURSIVE RStrip(_)
RStrip(s) == IF s # <<>> /\ s[Len(s)] = " " THEN RStrip(SubSeq(s, 1, Len(s) - 1)) ELSE s

\* str.strip(): the trimming the specification asks of identifiers
Strip(s) == RStrip(LStrip(s))

\* C10: identifiers are trimmed of leading and trailing whitespace before
\* they are used as keys: every identifier in the in-memory store and every
\* identifier in a durable key is trimmed.
C10_IdentifiersTrimmed ==
    /\ \A i \in 1..Len(KNOWN_FACES) : KNOWN_FACES[i].roll = Strip(KNOWN_FACES[i].roll)
    /\ \A roll \in Rolls :
          FaceKey(roll) \in DOMAIN redis => roll = Strip(roll)

\* ------------------------------------------- identifiers at the edges
\* values of the 'roll' field that are absent, blank, or only a separator
EdgeRolls == { None, <<>>, <<" ">>, <<":">>, <<"a">> }

\* requests served one at a time, their rolls drawn from EdgeRolls
NextEdge ==
    \/ Startup /\ Sequential'
    \/ StartupFail /\ Sequential'
    \/ Restart /\ Sequential'
    \/ \E t \in Threads : AddFaceBadBody(t) /\ Sequential'
    \/ \E t \in Threads : RecognizeBadBody(t) /\ Sequential'
    \/ \E t \in Threads, roll \in EdgeRolls, image_b64 \in Images :
          AddFaceBegin(t, roll, image_b64) /\ Sequential'
    \/ \E t \in Threads : AddRedisSet(t) /\ Sequential'
    \/ \E t \in Threads : AddRedisSetFail(t) /\ Sequential'
    \/ \E t \in Threads : AddScan(t) /\ Sequential'
    \/ \E t \in Threads : AddAppend(t) /\ Sequential'
    \/ \E t \in Threads, image_b64 \in Images :
          RecognizeBegin(t, image_b64) /\ Sequential'
    \/ \E t \in Threads : RecognizeReadEncodings(t) /\ Sequential'
    \/ \E t \in Threads : RecognizeReadRolls(t) /\ Sequential'
    \/ \E t \in Threads : RecognizeCompare(t) /\ Sequential'

SpecEdge == Init /\ [][NextEdge]_vars

\* C11: an add_face request whose identifier is empty after trimming (absent,
\* empty or whitespace-only) is rejected as InvalidInput before decoding and
\* detection: no such request gets past validation, and no such identifier
\* reaches the durable store or the in-memory store.
C11_BlankIdentifierRejected ==
    /\ \A t \in Threads :
          (req[t].op = "add" /\ req[t].nfaces # -1) => Strip(req[t].roll) # <<>>
    /\ \A roll \in EdgeRolls :
          FaceKey(roll) \in DOMAIN redis => (roll # None /\ Strip(roll) # <<>>)

\* the positions of the encodings of a list that pass the tolerance test
Passing(encs, face) == { k \in 1..Len(encs) : WithinTolerance(encs[k], face) }

\* thread t's recognize_face compares and returns
CompareStep(t) == req[t].pc = "compare" /\ req'[t].pc = "done"

\* C12: when at least one stored encoding passes the tolerance test against
\* the submitted face, recognize_face returns the identifier of the first
\* passing record in the order of the store, closer later records or not.
C12_FirstPassingRecordReturned ==
    [][\A t \in Threads :
         (CompareStep(t) /\ Passing(req[t].known_encodings, req[t].enc) # {}) =>
            LET k == CHOOSE k \in Passing(req[t].known_encodings, req[t].enc) :
                        \A j \in Passing(req[t].known_encodings, req[t].enc) : k <= j
            IN  /\ req'[t].resp.success
                /\ req'[t].resp.roll = KNOWN_FACES[k].roll]_vars

\* thread t takes a new request for operation op
Accepts(t, op) == Free(t) /\ nreq' = nreq + 1 /\ req'[t].op = op

\* C13: a recognize_face request that carries an image (its body is a JSON
\* object and its image field is not empty) and finds the
\* in-memory store empty is answered at once as EmptyDatabase: the image is
\* neither decoded nor searched for faces, and no identifier is returned.
C13_EmptyStoreAnswersWithoutDetection ==
    [][\A t \in Threads :
         (/\ Accepts(t, "recognize")
          /\ KNOWN_FACES = <<>>
          /\ req'[t].resp # HtmlErrorPage
          /\ req'[t].resp.message # "Missing image data") =>
            /\ req'[t].pc = "done"
            /\ req'[t].resp.message = "No known faces in database."
            /\ req'[t].resp.status = 200
            /\ ~req'[t].resp.success
            /\ req'[t].resp.roll = None
            /\ req'[t].nfaces = -1]_vars

\* a recognize_face request was answered as EmptyDatabase on an empty store
C13_Witness ==
    \E t \in Threads :
        /\ req[t].pc = "done"
        /\ req[t].op = "recognize"
        /\ req[t].resp.message = "No known faces in database."
        /\ KNOWN_FACES = <<>>

\* thread t's recognize_face takes a step: it is accepted, or moves on
RecognizeStep(t) ==
    \/ Accepts(t, "recognize")
    \/ /\ req[t].op = "recognize"
       /\ Busy(t)
       /\ req'[t].op = "recognize"
       /\ req'[t] # req[t]

\* C14: no step of recognize_face, whatever its outcome (rejection, backend
\* error, empty store, no face, no match, match), changes the durable store
\* or the in-memory store.
C14_RecognizeNeverMutates ==
    [][\A t \in Threads : RecognizeStep(t) => UNCHANGED <<redis, KNOWN_FACES>>]_vars

\* recognize_face has returned a match, and has failed on a backend error,
\* with records in both stores
C14_Witness ==
    /\ KNOWN_FACES # <<>>
    /\ DOMAIN redis # {}
    /\ \E t \in Threads :
          /\ req[t].pc = "done"
          /\ req[t].op = "recognize"
          /\ req[t].resp.success
    /\ \E t \in Threads :
          /\ req[t].pc = "done"
          /\ req[t].op = "recognize"
          /\ req[t].resp.status = 500

\* C15: load_faces_from_redis never fails startup, whether the durable state
\* is malformed or unreadable: the process always gets past the load.
C15_LoadNeverFailsStartup == phase # "crashed"

\* the messages of the outcomes InvalidInput, InvalidImage, StorageFailure
\* and BackendFailure
ErrorMessages ==
    { "Missing roll or image data", "Missing image data", "Invalid image data",
      "Server error during encoding", "Server error" }

\* the messages of the outcomes NoFaceDetected, MultipleFaces, EmptyDatabase
\* and NoMatch
DomainMessages ==
    { "No face found in the image.", "More than one face found.",
      "No known faces in database.", "No face detected.",
      "No match found in database." }

\* C16: a request is answered once, when its handler returns, by a JSON
\* object with one of the handlers' messages; the response has a non-2xx
\* status exactly for InvalidInput, InvalidImage, StorageFailure and
\* BackendFailure; NoFaceDetected, MultipleFaces, EmptyDatabase and
\* NoMatch are answered 2xx with success false.
C16_StatusMatchesOutcome ==
    \A t \in Threads :
        /\ req[t].pc # "done" => req[t].resp = NoResp
        /\ req[t].pc = "done" =>
              /\ req[t].resp # NoResp
              /\ req[t].resp.message \in ErrorMessages \cup DomainMessages
                                         \cup {"Face encoding saved", "Match found!"}
              /\ (req[t].resp.status \notin 200..299) <=>
                    (req[t].resp.message \in ErrorMessages)
              /\ req[t].resp.message \in DomainMessages =>
                    (req[t].resp.status \in 200..299 /\ ~req[t].resp.success)
              /\ req[t].resp.success <=>
                    (req[t].resp.message \in {"Face encoding saved", "Match found!"})

\* thread t's durable write fails and the handler returns
WriteFailStep(t) == req[t].pc = "set" /\ req'[t].pc = "done"

\* the identifier has a durable key: the one add_face writes for it, or one
\* load_faces_from_redis reads it from
DurablyWritten(store, roll) ==
    \E key \in DOMAIN store : key = FaceKey(roll) \/ Split(key, ":")[2] = roll

\* C17: within one upsert the durable write precedes the in-memory update:
\* a failed write is answered non-2xx and leaves both stores as they were,
\* the cache is updated only by a request whose write is already in the
\* durable store, and the cache never holds an identifier without a
\* durable key.
C17_DurableWritePrecedesCacheUpdate ==
    [][/\ \A t \in Threads :
            WriteFailStep(t) =>
               /\ req'[t].resp.status \notin 200..299
               /\ UNCHANGED <<redis, KNOWN_FACES>>
       /\ (phase = "serving" /\ phase' = "serving" /\ KNOWN_FACES' # KNOWN_FACES) =>
             \E t \in Threads :
                 /\ req[t].pc \in {"scan", "append"}
                 /\ req'[t].pc = "done"
                 /\ FaceKey(req[t].roll) \in DOMAIN redis
                 /\ json_loads(redis[FaceKey(req[t].roll)]) \in Encodings
                 /\ redis' = redis
       /\ phase' = "serving" =>
             \A i \in 1..Len(KNOWN_FACES') :
                 DurablyWritten(redis', KNOWN_FACES'[i].roll)]_vars

\* an add_face whose durable write failed has returned, and its identifier
\* is in neither store
C17_Witness ==
    \E t \in Threads :
        /\ req[t].pc = "done"
        /\ req[t].op = "add"
        /\ req[t].roll # None
        /\ req[t].resp.status = 500
        /\ RecordsOf(KNOWN_FACES, req[t].roll) = {}
        /\ FaceKey(req[t].roll) \notin DOMAIN redis

\* C18: an enrollment of an identifier that already has a record updates it
\* in place and leaves the order of the identifiers as it was; only a
\* first-time enrollment adds a record, at the end of the list.
C18_ReenrollKeepsOrder ==
    [][\A t \in Threads :
         EnrollStep(t) =>
            IF RecordsOf(KNOWN_FACES, req[t].roll) # {}
            THEN KnownRolls(KNOWN_FACES') = KnownRolls(KNOWN_FACES)
            ELSE KNOWN_FACES' = Append(KNOWN_FACES, [roll |-> req[t].roll,
                                                     encoding |-> req[t].enc])]_vars
====
